---- MODULE Spec2Model ----
(***************************************************************************)
(* Model of the task listing engine of `chain`: the TaskListing, its Tasks *)
(* (revisions, completions, remarks) and the operations that               *)
(* TaskListing::handle_operation interprets, under a wall clock that only  *)
(* moves forward and a fixed local time zone.                              *)
(*                                                                         *)
(* Vec<T> is a sequence; a usize index i of the code is element i + 1.     *)
(* Option<T> is a sequence of length 0 (None) or 1 (Some).                 *)
(* String is a sequence of characters, so chars().count() is Len.          *)
(* DateTime<Utc> is a number of clock ticks since the start of the model.  *)
(***************************************************************************)
EXTENDS Integers, Sequences, FiniteSets, TLC

(***************************************************************************)
(* Bounds of the model.                                                    *)
(***************************************************************************)
\* longest listing the Add action builds
MaxTasks == 2
\* largest listing explored: tasks + completions + standalone remarks
MaxSize == 3
\* last instant of the wall clock
MaxTime == 2
\* clock ticks per calendar day
DayLen == 2
\* longest listing the reorder specification starts from
MaxReorderLen == 4

\* offsets of the local time zone from UTC, in ticks
TzOffsets == {1}
\* descriptions given to Add: the empty string and a non-empty one
Descriptions == {<<>>, <<"a">>}
\* remark texts of AddRemark; the empty text is a legal remark
RemarkTexts == {<<>>, <<"r">>}
\* the optional remark of MarkComplete
OptRemarks == {<<>>, <<(<<"r">>)>>}
\* task names of the reorder specification
ReorderNames == {<<"A">>, <<"B">>, <<"C">>, <<"D">>}

VARIABLES
    all_tasks,  \* TaskListing.all_tasks
    now,        \* the wall clock (UTC)
    tz,         \* offset of the Local time zone
    op,         \* the TaskOperation the last step handled (NoOp: a clock step)
    result,     \* what handle_operation returned for it
    snapshot,   \* history: the listing as it was before the last Reorder, or
                \* the listing that was handed to the last store
    view,       \* what the last report printed to stdout (None: nothing yet)
    ui,         \* the UiMode::Listing of the interactive session
    disk,       \* the data file taskdata.ron
    pc,         \* where the process is: in the session, in a command, aborted
    input,      \* what the last getch() returned and the height of the window,
                \* or the command line of the last run
    peer,       \* a second process: a run of the command line next to the
                \* session
    locals      \* the locals of history_for_range while it collects the dates

vars == <<all_tasks, now, tz, op, result, snapshot, view, ui, disk, pc, input,
         peer, locals>>

None == <<>>
Some(x) == <<x>>

\* Ui::default(): the Listing mode with nothing selected
Ui_default == [task_index |-> None, prev_index |-> None, scroll_pos |-> 0]

\* the data file does not exist
NoFile == [kind |-> "Missing"]

\* no second process: it is not running and holds no listing
NoPeer == [pc |-> "Shell", tasks |-> <<>>, result |-> "None"]

\* outside the interactive session and the command line the Ui and the data
\* file play no part
shell == <<ui, disk, pc, input, peer>>
ShellIdle ==
    /\ ui = Ui_default
    /\ disk = NoFile
    /\ pc = "Library"
    /\ input = None
    /\ peer = NoPeer

(***************************************************************************)
(* chrono: DateTime<Utc> -> with_timezone(&Local) -> date()                *)
(***************************************************************************)
LocalDate(dt, tzv) == (dt + tzv) \div DayLen

(***************************************************************************)
(* Task                                                                    *)
(***************************************************************************)
TaskDetails_new(time, revision_id, description) ==
    [revised |-> time, revision_id |-> revision_id,
     description |-> description, sync_time |-> None]

Task_new(description, now_t) ==
    [detail_history |-> <<TaskDetails_new(now_t, 0, description)>>,
     completions |-> <<>>,
     remarks |-> <<>>]

\* true iff some completion falls on the local date `date`
completed_on(task, date, tzv) ==
    \E k \in 1..Len(task.completions) :
        LocalDate(task.completions[k].datetime, tzv) = date

\* mutant: the dates are compared in UTC, without with_timezone(&Local)
completed_today_UtcDate(task, today_t, tzv) ==
    LET hits == {k \in 1..Len(task.completions) :
                    task.completions[k].datetime \div DayLen = today_t \div DayLen}
        first == CHOOSE k \in hits : \A j \in hits : k <= j
    IN  IF hits = {} THEN None ELSE Some(task.completions[first].datetime)

\* mutant: any completion counts, whatever its date
completed_today_AnyCompletion(task, today_t, tzv) ==
    IF task.completions = <<>> THEN None
    ELSE Some(task.completions[1].datetime)

\* the first completion (in storage order) whose local date is the local date
\* of the instant today_t, or None
completed_today(task, today_t, tzv) ==
    LET hits == {k \in 1..Len(task.completions) :
                    LocalDate(task.completions[k].datetime, tzv) = LocalDate(today_t, tzv)}
        first == CHOOSE k \in hits : \A j \in hits : k <= j
    IN  IF hits = {} THEN None ELSE Some(task.completions[first].datetime)

\* mutant: an empty remark is refused
add_remark_RefusesEmpty(task, remark, now_t) ==
    IF Len(remark) = 0
    THEN [task |-> task, result |-> "MissingDescription"]
    ELSE [task |-> [task EXCEPT !.remarks =
                       Append(@, [datetime |-> now_t, remark |-> remark])],
          result |-> "Ok"]

add_remark(task, remark, now_t) ==
    [task |-> [task EXCEPT !.remarks =
                   Append(@, [datetime |-> now_t, remark |-> remark])],
     result |-> "Ok"]

\* mutant: the completion is pushed before the check
mark_complete_PushThenCheck(task, remark, today_t, now_t, tzv) ==
    [task |-> [task EXCEPT !.completions =
                   Append(@, [datetime |-> now_t,
                              remark |-> IF remark # None
                                         THEN Some([datetime |-> now_t,
                                                    remark |-> remark[1]])
                                         ELSE None])],
     result |-> IF completed_today(task, today_t, tzv) # None
                THEN "AlreadyCompleted" ELSE "Ok"]

\* mutant: no check, every call pushes a completion
mark_complete_NoCheck(task, remark, today_t, now_t, tzv) ==
    [task |-> [task EXCEPT !.completions =
                   Append(@, [datetime |-> now_t,
                              remark |-> IF remark # None
                                         THEN Some([datetime |-> now_t,
                                                    remark |-> remark[1]])
                                         ELSE None])],
     result |-> "Ok"]

\* mutant: the remark of the completion is dropped
mark_complete_RemarkLost(task, remark, today_t, now_t, tzv) ==
    IF completed_today(task, today_t, tzv) # None
    THEN [task |-> task, result |-> "AlreadyCompleted"]
    ELSE [task |-> [task EXCEPT !.completions =
                        Append(@, [datetime |-> now_t, remark |-> None])],
          result |-> "Ok"]

\* mark_complete reads the clock twice: Local::today() inside completed_today
\* (at today_t) and then Utc::now() (at now_t >= today_t)
mark_complete(task, remark, today_t, now_t, tzv) ==
    IF completed_today(task, today_t, tzv) # None
    THEN [task |-> task, result |-> "AlreadyCompleted"]
    ELSE [task |-> [task EXCEPT !.completions =
                        Append(@, [datetime |-> now_t,
                                   remark |-> IF remark # None
                                              THEN Some([datetime |-> now_t,
                                                         remark |-> remark[1]])
                                              ELSE None])],
          result |-> "Ok"]

(***************************************************************************)
(* TaskListing                                                             *)
(***************************************************************************)
total_tasks(tasks) == Len(tasks)

\* mutant: the task is put at the front
push_Front(tasks, task) == <<task>> \o tasks

push(tasks, task) == Append(tasks, task)

\* Vec::remove(index): the vector without the element at index
VecRemove(v, index) ==
    [k \in 1..(Len(v) - 1) |-> IF k <= index THEN v[k] ELSE v[k + 1]]

\* mutant: the element at index is overwritten, nothing shifts
VecInsert_Replace(v, index, element) ==
    [k \in 1..Len(v) |-> IF k = index + 1 THEN element ELSE v[k]]

\* Vec::insert(index, element): element at index, the rest shifted right
VecInsert(v, index, element) ==
    [k \in 1..(Len(v) + 1) |->
        IF k <= index THEN v[k]
        ELSE IF k = index + 1 THEN element
        ELSE v[k - 1]]

\* mutant: from == to is checked before the bounds
move_task_RedundantFirst(tasks, from, to) ==
    IF from = to
    THEN [tasks |-> tasks, result |-> "RedundantMove"]
    ELSE IF from >= Len(tasks) \/ to >= Len(tasks)
    THEN [tasks |-> tasks, result |-> "NotFound"]
    ELSE [tasks |-> VecInsert(VecRemove(tasks, from), to, tasks[from + 1]),
          result |-> "Ok"]

\* mutant: the two tasks are swapped
move_task_Swap(tasks, from, to) ==
    IF from >= Len(tasks) \/ to >= Len(tasks)
    THEN [tasks |-> tasks, result |-> "NotFound"]
    ELSE IF from = to
    THEN [tasks |-> tasks, result |-> "RedundantMove"]
    ELSE [tasks |-> [tasks EXCEPT ![from + 1] = tasks[to + 1],
                                  ![to + 1] = tasks[from + 1]],
          result |-> "Ok"]

\* mutant: the task is put in front of the task that was at `to` before the
\* removal
move_task_BeforeTarget(tasks, from, to) ==
    IF from >= Len(tasks) \/ to >= Len(tasks)
    THEN [tasks |-> tasks, result |-> "NotFound"]
    ELSE IF from = to
    THEN [tasks |-> tasks, result |-> "RedundantMove"]
    ELSE [tasks |-> VecInsert(VecRemove(tasks, from),
                              IF from < to THEN to - 1 ELSE to,
                              tasks[from + 1]),
          result |-> "Ok"]

\* mutant: only `from` is checked against the length
move_task_UncheckedTo(tasks, from, to) ==
    IF from >= Len(tasks)
    THEN [tasks |-> tasks, result |-> "NotFound"]
    ELSE IF from = to
    THEN [tasks |-> tasks, result |-> "RedundantMove"]
    ELSE IF to > Len(VecRemove(tasks, from))
    THEN [tasks |-> VecRemove(tasks, from), result |-> "Panic"]
    ELSE [tasks |-> VecInsert(VecRemove(tasks, from), to, tasks[from + 1]),
          result |-> "Ok"]

\* Vec::insert panics when index > len
move_task(tasks, from, to) ==
    IF from >= total_tasks(tasks) \/ to >= total_tasks(tasks)
    THEN [tasks |-> tasks, result |-> "NotFound"]
    ELSE IF from = to
    THEN [tasks |-> tasks, result |-> "RedundantMove"]
    ELSE LET element_moving == tasks[from + 1]
             removed == VecRemove(tasks, from)
         IN  IF to > Len(removed)
             THEN [tasks |-> removed, result |-> "Panic"]
             ELSE [tasks |-> VecInsert(removed, to, element_moving),
                   result |-> "Ok"]

\* mutant: the description is not validated
description_missing_Skipped(description) == FALSE

\* the guard of the first Add arm: description.chars().count() == 0
description_missing(description) == Len(description) = 0

\* mutant: off by one, the index one past the end passes
index_not_found_OffByOne(tasks, task_index) == task_index > Len(tasks)

\* the bounds check of MarkComplete and AddRemark
index_not_found(tasks, task_index) == task_index >= Len(tasks)

\* o is the operation (the String remark of AddRemark is its field text, the
\* Option<String> remark of MarkComplete its field remark); today_t and now_t
\* are the instants at which the handler reads Local::today() and Utc::now().
\* task_iter_mut().nth(i).unwrap() panics when there is no element i.
handle_operation(tasks, o, today_t, now_t, tzv) ==
    CASE o.type = "Add" ->
            IF description_missing(o.description)
            THEN [tasks |-> tasks, result |-> "MissingDescription"]
            ELSE [tasks |-> push(tasks, Task_new(o.description, now_t)),
                  result |-> "Ok"]
      [] o.type = "MarkComplete" ->
            IF index_not_found(tasks, o.task_index)
            THEN [tasks |-> tasks, result |-> "NotFound"]
            ELSE IF o.task_index + 1 \notin DOMAIN tasks
            THEN [tasks |-> tasks, result |-> "Panic"]
            ELSE LET r == mark_complete(tasks[o.task_index + 1], o.remark,
                                        today_t, now_t, tzv)
                 IN  [tasks |-> [tasks EXCEPT ![o.task_index + 1] = r.task],
                      result |-> r.result]
      [] o.type = "Reorder" -> move_task(tasks, o.from, o.to)
      [] o.type = "AddRemark" ->
            IF index_not_found(tasks, o.task_index)
            THEN [tasks |-> tasks, result |-> "NotFound"]
            ELSE IF o.task_index + 1 \notin DOMAIN tasks
            THEN [tasks |-> tasks, result |-> "Panic"]
            ELSE LET r == add_remark(tasks[o.task_index + 1], o.text, now_t)
                 IN  [tasks |-> [tasks EXCEPT ![o.task_index + 1] = r.task],
                      result |-> r.result]

(***************************************************************************)
(* The operations as steps of the program                                  *)
(***************************************************************************)
NoOp == [type |-> "None"]

\* one call of handle_operation(o) that starts at the instant `now` and
\* reads Utc::now() at now_t
Handle(o, now_t) ==
    LET r == handle_operation(all_tasks, o, now, now_t, tz)
    IN  /\ all_tasks' = r.tasks
        /\ result' = r.result
        /\ op' = o
        /\ now' = now_t
        /\ tz' = tz
        /\ locals' = locals

Add(description) ==
    Handle([type |-> "Add", description |-> description], now)

MarkComplete(task_index, remark, now_t) ==
    Handle([type |-> "MarkComplete", task_index |-> task_index, remark |-> remark],
           now_t)

AddRemark(task_index, remark) ==
    Handle([type |-> "AddRemark", task_index |-> task_index, text |-> remark],
           now)

Reorder(from, to) ==
    Handle([type |-> "Reorder", from |-> from, to |-> to], now)

\* the wall clock advances between two calls
Tick ==
    /\ now < MaxTime
    /\ now' = now + 1
    /\ op' = NoOp
    /\ result' = "None"
    /\ UNCHANGED <<all_tasks, tz, locals, snapshot, view, shell>>

RECURSIVE Size(_)
\* number of tasks, completions and standalone remarks of a listing
Size(tasks) ==
    IF tasks = <<>> THEN 0
    ELSE 1 + Len(Head(tasks).completions) + Len(Head(tasks).remarks)
           + Size(Tail(tasks))

\* the listings explored
InBounds == Len(all_tasks) <= MaxTasks /\ Size(all_tasks) <= MaxSize

\* index arguments: every valid index and some past the end
Indexes == 0..MaxTasks

\* the instants at which a call that starts now may read the clock again
Later == {t \in {now, now + 1} : t <= MaxTime}

Init ==
    /\ all_tasks = <<>>
    /\ now = 0
    /\ tz \in TzOffsets
    /\ locals = None
    /\ op = NoOp
    /\ result = "None"
    /\ snapshot = None
    /\ view = None
    /\ ShellIdle

Next ==
    /\ \/ \E d \in Descriptions : Add(d)
       \/ \E i \in Indexes, r \in OptRemarks, t \in Later : MarkComplete(i, r, t)
       \/ \E i \in Indexes, r \in RemarkTexts : AddRemark(i, r)
       \/ \E f \in Indexes, t \in Indexes : Reorder(f, t)
       \/ Tick
    /\ InBounds'
    /\ UNCHANGED <<snapshot, view, shell>>

Spec == Init /\ [][Next]_vars

(***************************************************************************)
(* Reordering on its own: the listing starts as any sequence of up to      *)
(* MaxReorderLen freshly added tasks and Reorder operations are applied.   *)
(***************************************************************************)
ReorderIndexes == 0..MaxReorderLen

InitReorder ==
    /\ \E n \in 0..MaxReorderLen :
          all_tasks \in [1..n -> {Task_new(d, 0) : d \in ReorderNames}]
    /\ now = 0
    /\ tz \in TzOffsets
    /\ locals = None
    /\ op = NoOp
    /\ result = "None"
    /\ snapshot = None
    /\ view = None
    /\ ShellIdle

\* a Reorder; the listing it started from is kept in snapshot
NextReorder ==
    /\ \E f \in ReorderIndexes, t \in ReorderIndexes : Reorder(f, t)
    /\ snapshot' = Some(all_tasks)
    /\ UNCHANGED <<view, shell>>

SpecReorder == InitReorder /\ [][NextReorder]_vars

(***************************************************************************)
(* TaskListing::history_for_range: the calendar grid printed to stdout.    *)
(* A Date<Local> is a day number and succ() is + 1. What print! writes is  *)
(* a sequence of characters. The grid is kept by cell: for every date the  *)
(* "|", the status character and the connector the row loop printed, or    *)
(* the blanks it printed instead of them for a day after today.            *)
(***************************************************************************)
\* let indent_size = 4
indent_size == 4

\* mutant: the end date is left out
dates_from_ExclusiveEnd(date_at, end) ==
    [k \in 1..(end - date_at) |-> date_at + k - 1]

RECURSIVE dates_from(_, _)
\* the loop `while date_at != end.succ()` that fills `dates`
dates_from(date_at, end) ==
    IF date_at = end + 1 THEN <<>>
    ELSE <<date_at>> \o dates_from(date_at + 1, end)

\* " ".repeat(n)
repeat_blank(n) == [k \in 1..n |-> " "]

\* {:<width$}: left-aligned, filled with blanks up to width
pad_left_aligned(s, width) ==
    IF Len(s) >= width THEN s ELSE s \o repeat_blank(width - Len(s))

RECURSIVE to_string(_)
\* the decimal digits of a usize
to_string(n) ==
    LET digit == <<"0", "1", "2", "3", "4", "5", "6", "7", "8", "9">>[(n % 10) + 1]
    IN  IF n < 10 THEN <<digit>> ELSE to_string(n \div 10) \o <<digit>>

\* Date::day(): the day of the month; the days of the model lie in one month
\* whose first day is day 0
day(date) == date + 1

\* format!("|{:<02}", date.day()): the 0 flag pads with zeros in front of the
\* digits whatever the alignment
header_label(date) ==
    <<"|">> \o (IF day(date) < 10 THEN <<"0">> ELSE <<>>) \o to_string(day(date))

header_cell(date) ==
    [date |-> date, text |-> pad_left_aligned(header_label(date), indent_size + 1)]

RECURSIVE max_description(_)
\* the fold over the tasks: the longest description, in characters
max_description(tasks) ==
    IF tasks = <<>> THEN 0
    ELSE LET curr_len == Len(Head(tasks).detail_history[1].description)
             max == max_description(Tail(tasks))
         IN  IF max > curr_len THEN max ELSE curr_len

\* mutant: the width is the longest description rounded up to a multiple of
\* the indent
description_width_RoundedUp(tasks) ==
    ((max_description(tasks) + indent_size - 1) \div indent_size) * indent_size

\* the same expression in list_for_today and in history_for_range
description_width(tasks) ==
    ((max_description(tasks) \div indent_size) + 1) * indent_size

id_width(tasks) ==
    ((Len(to_string(Len(tasks))) \div indent_size) + 1) * indent_size

\* mutant: the days after today are rendered like the days before it
is_future_Never(date, today) == FALSE

\* the else of `if date <= &Local::today()`
is_future(date, today) == ~(date <= today)

\* mutant: a missed day is marked whether or not a day before it was done
status_char_MissedAlways(done, date, today, any_done, last_complete) ==
    IF done THEN <<"o">>
    ELSE IF date = today THEN <<"?">>
    ELSE <<"x">>

\* mutant: the missed branch is tried before the today branch
status_char_MissedFirst(done, date, today, any_done, last_complete) ==
    IF done THEN <<"o">>
    ELSE IF (date # today) /\ ~any_done THEN <<" ">>
    ELSE IF any_done /\ last_complete THEN <<"x">>
    ELSE IF date = today THEN <<"?">>
    ELSE <<>>

\* the status character of a day that is not after today: the if / else if
\* chain, which prints nothing when no branch is taken
status_char(done, date, today, any_done, last_complete) ==
    IF done THEN <<"o">>
    ELSE IF (date # today) /\ ~any_done THEN <<" ">>
    ELSE IF date = today THEN <<"?">>
    ELSE IF any_done /\ last_complete THEN <<"x">>
    ELSE <<>>

\* last_complete after the chain: set by the done branch, reset by the missed
\* branch
next_last_complete(done, date, today, any_done, last_complete) ==
    IF done THEN TRUE
    ELSE IF (date # today) /\ ~any_done THEN last_complete
    ELSE IF date = today THEN last_complete
    ELSE IF any_done /\ last_complete THEN FALSE
    ELSE last_complete

\* mutant: the last column gets a connector too
is_last_Never(date, dates) == FALSE

\* date == dates.last().unwrap()
is_last(date, dates) == date = dates[Len(dates)]

\* mutant: the connector is left out in front of today's column
connector_NextNotToday(last_complete, date, today) ==
    IF last_complete /\ (date + 1 # today)
    THEN <<"-", "o", "-">>
    ELSE <<" ", " ", " ">>

\* what follows the status character of a column that is not the last one
connector(last_complete, date, today) ==
    IF last_complete /\ (date # today)
    THEN <<"-", "o", "-">>
    ELSE <<" ", " ", " ">>

\* print!("    ") for a day after today: neither a status nor a connector
\* is printed
future_cell(date) ==
    [date |-> date, bar |-> <<"|">>, mark |-> <<>>, conn |-> <<>>,
     fill |-> <<" ", " ", " ", " ">>]

RECURSIVE row_cells(_, _, _, _, _, _, _)
\* the loop over the dates for one task, from the i-th date on, with the
\* values any_done and last_complete have when it gets there
row_cells(task, dates, i, any_done, last_complete, today, tzv) ==
    IF i > Len(dates) THEN <<>>
    ELSE LET date == dates[i]
             done == completed_on(task, date, tzv)
         IN  IF is_future(date, today)
             THEN <<future_cell(date)>>
                  \o row_cells(task, dates, i + 1, any_done, last_complete,
                               today, tzv)
             ELSE LET last == next_last_complete(done, date, today, any_done,
                                                 last_complete)
                      cell == [date |-> date,
                               bar |-> <<"|">>,
                               mark |-> status_char(done, date, today, any_done,
                                                    last_complete),
                               conn |-> IF is_last(date, dates) THEN <<>>
                                        ELSE connector(last, date, today),
                               fill |-> <<>>]
                  IN  <<cell>>
                      \o row_cells(task, dates, i + 1, any_done \/ done, last,
                                   today, tzv)

\* one printed row: the numeric id, the description and the cells
row(tasks, n, dates, today, tzv) ==
    [n |-> n,
     id |-> pad_left_aligned(to_string(n), id_width(tasks)),
     description |-> pad_left_aligned(tasks[n + 1].detail_history[1].description,
                                      description_width(tasks)),
     cells |-> row_cells(tasks[n + 1], dates, 1, FALSE, FALSE, today, tzv)]

\* everything history_for_range(start, end) prints when Local::today() is
\* today
history_for_range(tasks, start, end, today, tzv) ==
    LET dates == dates_from(start, end)
    IN  [start |-> start,
         end |-> end,
         today |-> today,
         indent |-> repeat_blank(id_width(tasks)) \o repeat_blank(description_width(tasks)),
         header |-> [k \in 1..Len(dates) |-> header_cell(dates[k])],
         rows |-> [k \in 1..Len(tasks) |-> row(tasks, k - 1, dates, today, tzv)]]

(***************************************************************************)
(* The history view on its own: the listing holds up to two tasks, each    *)
(* completed on any set of days up to today, and history_for_range is      *)
(* called for the windows start..end of the days 0..MaxDay.                *)
(***************************************************************************)
\* last day of the calendar of the history specification
MaxDay == 4

\* the descriptions of the tasks of the history specification, by index
HistoryNames == <<(<<"a">>), (<<"b", "b", "b", "b", "b">>)>>

Days == 0..MaxDay

RECURSIVE completions_on(_)
\* one completion without remark on every day of the set, oldest first
completions_on(days) ==
    IF days = {} THEN <<>>
    ELSE LET d == CHOOSE x \in days : \A y \in days : x <= y
         IN  <<[datetime |-> d * DayLen, remark |-> None]>>
             \o completions_on(days \ {d})

\* a task added on day 0 and marked complete on the given days
task_completed_on(description, days) ==
    [Task_new(description, 0) EXCEPT !.completions = completions_on(days)]

\* one call of history_for_range(start, end) with start <= end; view keeps
\* what it printed. Printing again changes nothing in the listing, so one
\* call per run is followed.
HistoryForRange(start, end) ==
    /\ view = None
    /\ start <= end
    /\ view' = Some(history_for_range(all_tasks, start, end, LocalDate(now, tz), tz))
    /\ UNCHANGED <<all_tasks, now, tz, locals, op, result, snapshot, shell>>

InitHistory ==
    /\ tz \in TzOffsets
    /\ locals = None
    /\ \E today \in Days :
          /\ now = today * DayLen
          /\ \E n \in 0..Len(HistoryNames) :
                \E done \in [1..n -> SUBSET (0..today)] :
                    all_tasks = [k \in 1..n |->
                                    task_completed_on(HistoryNames[k], done[k])]
    /\ op = NoOp
    /\ result = "None"
    /\ snapshot = None
    /\ view = None
    /\ ShellIdle

NextHistory == \E start \in Days, end \in Days : HistoryForRange(start, end)

SpecHistory == InitHistory /\ [][NextHistory]_vars

(***************************************************************************)
(* history_for_range step by step: the loop that collects the dates of the *)
(* window runs one date per step, and the header and the rows are printed  *)
(* when it is left. The calendar of chrono ends with a last date, on which *)
(* succ() panics.                                                          *)
(***************************************************************************)
\* the last date of the calendar
LastDate == 6

\* date.succ(): the next date, or no date when there is none
succ(date) == IF date < LastDate THEN Some(date + 1) ELSE None

\* history_for_range(start, end) is entered: let mut dates = Vec::new();
\* let mut date_at = start.clone();
EnterRange(start, end) ==
    /\ pc = "Library"
    /\ locals = None
    /\ locals' = Some([start |-> start, end |-> end, date_at |-> start,
                       dates |-> <<>>])
    /\ pc' = "Dates"
    /\ UNCHANGED <<all_tasks, now, tz, op, result, snapshot, view, ui, disk,
                   input, peer>>

\* one turn of while date_at != end.succ() { dates.push(date_at);
\* date_at = date_at.succ(); }
DatesStep ==
    /\ pc = "Dates"
    /\ LET l == locals[1]
       IN  /\ succ(l.end) # None => l.date_at # succ(l.end)[1]
           /\ IF succ(l.end) = None
              THEN /\ pc' = "Aborted"
                   /\ locals' = locals
              ELSE IF succ(l.date_at) = None
              THEN /\ pc' = "Aborted"
                   /\ locals' = Some([l EXCEPT !.dates = Append(@, l.date_at)])
              ELSE /\ pc' = pc
                   /\ locals' = Some([l EXCEPT !.dates = Append(@, l.date_at),
                                               !.date_at = succ(l.date_at)[1]])
    /\ UNCHANGED <<all_tasks, now, tz, op, result, snapshot, view, ui, disk,
                   input, peer>>

\* the loop is left: the header and the rows are printed
PrintRange ==
    /\ pc = "Dates"
    /\ LET l == locals[1]
       IN  /\ succ(l.end) # None
           /\ l.date_at = succ(l.end)[1]
           /\ view' = Some(history_for_range(all_tasks, l.start, l.end,
                                             LocalDate(now, tz), tz))
    /\ pc' = "Printed"
    /\ UNCHANGED <<all_tasks, now, tz, locals, op, result, snapshot, ui, disk,
                   input, peer>>

\* today is a day in the middle of the calendar; the listing is empty or
\* holds a task completed on the first day
InitRange ==
    /\ tz \in TzOffsets
    /\ locals = None
    /\ now = 2 * DayLen
    /\ all_tasks \in {<<>>, <<task_completed_on(<<"a">>, {0})>>}
    /\ op = NoOp
    /\ result = "None"
    /\ snapshot = None
    /\ view = None
    /\ ShellIdle

\* the dates a caller can hand over
CalendarDays == 0..LastDate

NextRange ==
    \/ \E start \in CalendarDays, end \in CalendarDays : EnterRange(start, end)
    \/ DatesStep
    \/ PrintRange

SpecRange == InitRange /\ [][NextRange]_vars

(***************************************************************************)
(* TaskListing::list_for_today: the checklist printed to stdout, kept by   *)
(* row: the check box, the numeric id, the description, the completion     *)
(* time and the "(next)" marker, each as the characters print! wrote.      *)
(***************************************************************************)
\* DateTime::hour() and minute(): a clock tick is an hour of the local day
hour(datetime, tzv) == (datetime + tzv) % DayLen
minute(datetime, tzv) == 0

\* {:02}
two_digits(n) == (IF n < 10 THEN <<"0">> ELSE <<>>) \o to_string(n)

\* format!("{:02}:{:02}", hour, minute) of today's completion, or "--:--"
timestamp_display(completed, tzv) ==
    IF completed # None
    THEN two_digits(hour(completed[1], tzv)) \o <<":">>
         \o two_digits(minute(completed[1], tzv))
    ELSE <<"-", "-", ":", "-", "-">>

\* mutant: every task that is not completed today is marked
marks_next_Every(next_marked, completed) == completed = None

\* the guard of print!("(next)")
marks_next(next_marked, completed) == ~next_marked /\ completed = None

RECURSIVE today_rows(_, _, _, _, _)
\* the loop over the tasks from index n on, with the value next_marked has
\* when it gets there
today_rows(tasks, n, next_marked, today_t, tzv) ==
    IF n >= Len(tasks) THEN <<>>
    ELSE LET task == tasks[n + 1]
             completed == completed_today(task, today_t, tzv)
             timestamp == timestamp_display(completed, tzv)
             marked == marks_next(next_marked, completed)
             line == [n |-> n,
                      checkbox |-> pad_left_aligned(
                          IF completed # None THEN <<"[", "x", "]">>
                                              ELSE <<"[", " ", "]">>, 4),
                      id |-> pad_left_aligned(to_string(n), id_width(tasks)),
                      description |-> pad_left_aligned(
                          task.detail_history[1].description,
                          description_width(tasks)),
                      timestamp |-> pad_left_aligned(
                          timestamp,
                          ((Len(timestamp) \div indent_size) + 1) * indent_size),
                      next |-> IF marked THEN <<"(", "n", "e", "x", "t", ")">>
                               ELSE <<>>]
         IN  <<line>> \o today_rows(tasks, n + 1, next_marked \/ marked,
                                    today_t, tzv)

\* everything list_for_today() prints when the clock reads today_t
list_for_today(tasks, today_t, tzv) ==
    [description_width |-> description_width(tasks),
     id_width |-> id_width(tasks),
     rows |-> today_rows(tasks, 0, FALSE, today_t, tzv)]

(***************************************************************************)
(* The today view on its own: the listing holds up to MaxTodayTasks tasks  *)
(* added on day 0, each with one of the descriptions and completed never,  *)
(* on day 0 only, or on day 1, which is today.                             *)
(***************************************************************************)
\* longest listing of the today specification
MaxTodayTasks == 3

\* descriptions of 0, 3, 4 and 5 characters
TodayNames == {<<>>, <<"a", "b", "c">>, <<"a", "b", "c", "d">>,
               <<"a", "b", "c", "d", "e">>}

\* the days on which a task of the today specification was completed
TodayDone == {{}, {0}, {0, 1}}

\* the last instant of the local day
end_of_day(date, tzv) == (date + 1) * DayLen - tzv - 1

\* one call of list_for_today(); view keeps what it printed
ListForToday ==
    /\ view = None
    /\ view' = Some(list_for_today(all_tasks, now, tz))
    /\ UNCHANGED <<all_tasks, now, tz, locals, op, result, snapshot, shell>>

InitToday ==
    /\ tz \in TzOffsets
    /\ locals = None
    /\ now = end_of_day(1, tz)
    /\ \E n \in 0..MaxTodayTasks :
          \E names \in [1..n -> TodayNames], done \in [1..n -> TodayDone] :
              all_tasks = [k \in 1..n |-> task_completed_on(names[k], done[k])]
    /\ op = NoOp
    /\ result = "None"
    /\ snapshot = None
    /\ view = None
    /\ ShellIdle

NextToday == ListForToday

SpecToday == InitToday /\ [][NextToday]_vars

(***************************************************************************)
(* Persistence. The data file is missing or holds a text, a sequence of    *)
(* pieces: the struct name and the body that the RON serializer writes.    *)
(* A write that fails leaves a proper prefix of the text it was writing.   *)
(* A text that is not the output of the serializer is a piece that names   *)
(* the error ron::de::from_str reports for it.                             *)
(***************************************************************************)
File(text) == [kind |-> "File", text |-> text]

\* serde's Option<T>
ron_option(o) == IF o = None THEN <<"None">> ELSE <<"Some", o[1]>>
\* mutant: an option is read back as None
de_option_None(o) == None
de_option(o) == IF o[1] = "None" THEN None ELSE Some(o[2])

ron_completion(c) ==
    [datetime |-> c.datetime, remark |-> ron_option(c.remark)]
de_completion(c) ==
    [datetime |-> c.datetime, remark |-> de_option(c.remark)]

ron_details(d) ==
    [revised |-> d.revised, revision_id |-> d.revision_id,
     description |-> d.description, sync_time |-> ron_option(d.sync_time)]
de_details(d) ==
    [revised |-> d.revised, revision_id |-> d.revision_id,
     description |-> d.description, sync_time |-> de_option(d.sync_time)]

ron_task(task) ==
    [detail_history |-> [k \in 1..Len(task.detail_history) |->
                            ron_details(task.detail_history[k])],
     completions |-> [k \in 1..Len(task.completions) |->
                         ron_completion(task.completions[k])],
     remarks |-> task.remarks]
de_task(task) ==
    [detail_history |-> [k \in 1..Len(task.detail_history) |->
                            de_details(task.detail_history[k])],
     completions |-> [k \in 1..Len(task.completions) |->
                         de_completion(task.completions[k])],
     remarks |-> task.remarks]

\* self.serialize(&mut serializer) with struct names; into_output_string()
serialize(tasks) ==
    <<"TaskListing", [all_tasks |-> [k \in 1..Len(tasks) |-> ron_task(tasks[k])]]>>

\* the text of a file that was just created
EmptyText == <<>>

\* the errors of ron::de::from_str, with the position the parser reports
ExpectedStruct == [error |-> "ExpectedStruct", line |-> 1, col |-> 1]
ExpectedUnitAtStart == [error |-> "ExpectedUnit", line |-> 1, col |-> 1]
ExpectedUnitLater == [error |-> "ExpectedUnit", line |-> 2, col |-> 1]
UnexpectedEof == [error |-> "Eof", line |-> 1, col |-> 12]
ParseErrors == {ExpectedStruct, ExpectedUnitAtStart, ExpectedUnitLater, UnexpectedEof}

\* a text that from_str rejects with the error
Damaged(error) == <<"Damaged", error>>

\* ron::de::from_str(&tasks_file_string): the listing of a text the
\* serializer wrote; no struct is found in the empty text; a text cut off
\* behind the struct name ends too early
from_str(text) ==
    IF text = EmptyText THEN [ok |-> FALSE, error |-> ExpectedStruct]
    ELSE IF text[1] = "Damaged" THEN [ok |-> FALSE, error |-> text[2]]
    ELSE IF Len(text) < 2 THEN [ok |-> FALSE, error |-> UnexpectedEof]
    ELSE [ok |-> TRUE,
          tasks |-> [k \in 1..Len(text[2].all_tasks) |->
                        de_task(text[2].all_tasks[k])]]

\* what the file system does to one store: the file cannot be opened for
\* writing, the write fails right after the truncation or after a part of
\* the text, or the write succeeds
StoreOutcomes == {"OpenFails", "WriteFailsAtOnce", "WriteFailsMidway", "Written"}

\* mutant: a file that holds a text is left alone, as if another process
\* held it
store_KeepsExisting(tasks, file, io) ==
    LET serialized == serialize(tasks)
    IN  IF file.kind = "Missing" \/ io = "OpenFails"
        THEN [file |-> file, result |-> "StoreFailed"]
        ELSE IF file.text # EmptyText
        THEN [file |-> file, result |-> "Ok"]
        ELSE [file |-> File(serialized), result |-> "Ok"]

\* TaskListing::store: open with write and truncate, then write_all; io is
\* what the file system does
store(tasks, file, io) ==
    LET serialized == serialize(tasks)
    IN  IF file.kind = "Missing" \/ io = "OpenFails"
        THEN [file |-> file, result |-> "StoreFailed"]
        ELSE IF io = "WriteFailsAtOnce"
        THEN [file |-> File(EmptyText), result |-> "StoreFailed"]
        ELSE IF io = "WriteFailsMidway"
        THEN [file |-> File(SubSeq(serialized, 1, 1)), result |-> "StoreFailed"]
        ELSE [file |-> File(serialized), result |-> "Ok"]

\* mutant: the store is attempted whatever handle_operation returned
handle_and_store_Always(tasks, file, o, today_t, now_t, tzv, io) ==
    LET handled == handle_operation(tasks, o, today_t, now_t, tzv)
        stored == store(handled.tasks, file, io)
    IN  [tasks |-> handled.tasks, file |-> stored.file,
         result |-> IF handled.result # "Ok" THEN handled.result
                    ELSE stored.result]

\* TaskListing::handle_and_store: self.handle_operation(op)?; self.store(..)?
handle_and_store(tasks, file, o, today_t, now_t, tzv, io) ==
    LET handled == handle_operation(tasks, o, today_t, now_t, tzv)
        stored == store(handled.tasks, file, io)
    IN  IF handled.result # "Ok"
        THEN [tasks |-> handled.tasks, file |-> file, result |-> handled.result]
        ELSE [tasks |-> handled.tasks, file |-> stored.file,
              result |-> stored.result]

(***************************************************************************)
(* tui: the interactive session. One step of the loop of run() is one call *)
(* of input_and_render, which reads one input and may queue an operation,  *)
(* and the handle_and_store of that operation. Of the window only its      *)
(* height matters to the navigation; it is at least the 5 rows that        *)
(* input_and_render subtracts, and what is drawn on it is left out.        *)
(***************************************************************************)
\* what getch() returns: Input::KeyUp, Input::KeyDown, Input::Character(' '),
\* another character, Input::KeyResize, Input::Unknown, another key, nothing
Inputs == {"KeyUp", "KeyDown", "Space", "Character", "KeyResize", "Unknown",
           "KeyOther", "NoInput"}

\* mutant: KeyUp moves the selection without the test against 0
key_up_Unclamped(mode) ==
    IF mode.task_index # None
    THEN [mode EXCEPT !.prev_index = Some(mode.task_index[1]),
                      !.task_index = Some(IF mode.task_index[1] > 0
                                          THEN mode.task_index[1] - 1
                                          ELSE mode.task_index[1] + 1)]
    ELSE mode

\* Input::KeyUp
key_up(mode) ==
    IF mode.task_index # None /\ mode.task_index[1] > 0
    THEN [mode EXCEPT !.prev_index = Some(mode.task_index[1]),
                      !.task_index = Some(mode.task_index[1] - 1)]
    ELSE mode

\* mutant: KeyDown records the previous index also when the move is blocked
key_down_RecordsBlocked(mode, max_task_index) ==
    IF mode.task_index # None
    THEN [mode EXCEPT !.prev_index = Some(mode.task_index[1]),
                      !.task_index = Some(IF mode.task_index[1] < max_task_index
                                          THEN mode.task_index[1] + 1
                                          ELSE mode.task_index[1])]
    ELSE mode

\* Input::KeyDown
key_down(mode, max_task_index) ==
    IF mode.task_index # None /\ mode.task_index[1] < max_task_index
    THEN [mode EXCEPT !.prev_index = Some(mode.task_index[1]),
                      !.task_index = Some(mode.task_index[1] + 1)]
    ELSE mode

\* mutant: the window is scrolled so that the selection is its first row
scroll_into_view_Top(task_index, scroll_pos, max_entries_visible) ==
    task_index

\* the adjustment of scroll_pos behind the input handling
scroll_into_view(task_index, scroll_pos, max_entries_visible) ==
    IF task_index < scroll_pos THEN task_index
    ELSE IF task_index >= scroll_pos + max_entries_visible
    THEN task_index - max_entries_visible + 1
    ELSE scroll_pos

\* mutant: every character completes the selected task
yields_operation_AnyCharacter(key) == key \in {"Space", "Character"}

\* the only arm that sets task_operation: Input::Character(' ')
yields_operation(key) == key = "Space"

\* input_and_render(ui, tasks) when getch() returns key and the window is
\* max_y rows high: the mode it leaves, the operation it returns, and whether
\* an unwrap() of task_index hit None
input_and_render(mode, tasks, key, max_y) ==
    LET task_count == Len(tasks)
        max_task_index == IF task_count > 0 THEN task_count - 1 ELSE 0
        moved == CASE key = "KeyUp" -> key_up(mode)
                   [] key = "KeyDown" -> key_down(mode, max_task_index)
                   [] OTHER -> mode
        max_entries_visible == max_y - 5
    IN  IF moved.task_index = None
        THEN [mode |-> mode, task_operation |-> None, aborted |-> TRUE]
        ELSE [mode |-> [moved EXCEPT !.scroll_pos =
                           scroll_into_view(moved.task_index[1], moved.scroll_pos,
                                            max_entries_visible)],
              task_operation |->
                  IF yields_operation(key)
                  THEN Some([type |-> "MarkComplete",
                             task_index |-> moved.task_index[1],
                             remark |-> None])
                  ELSE None,
              aborted |-> FALSE]

\* the mode run() starts with: the first task selected, if there is one
run_mode(tasks) ==
    IF Len(tasks) > 0
    THEN [task_index |-> Some(0), prev_index |-> None, scroll_pos |-> 0]
    ELSE [task_index |-> None, prev_index |-> None, scroll_pos |-> 0]

(***************************************************************************)
(* The interactive session on its own: it starts on a listing of up to     *)
(* MaxSessionTasks tasks, none completed today, that the data file holds.  *)
(***************************************************************************)
\* longest listing of the session
MaxSessionTasks == 3
\* most rows of tasks the window shows
MaxVisible == 2

\* the days on which the tasks of the session were completed before it:
\* yesterday
SessionDone == {0}

\* the heights of the window
Heights == 5..(5 + MaxVisible)

\* one turn of the loop of run(): input_and_render, then handle_and_store
\* of the operation it returned; the error of handle_and_store is dropped
RunStep(key, max_y, io) ==
    /\ pc = "Session"
    /\ input' = Some([key |-> key, max_y |-> max_y])
    /\ LET r == input_and_render(ui, all_tasks, key, max_y)
       IN  IF r.aborted
           THEN /\ pc' = "Aborted"
                /\ op' = NoOp
                /\ result' = "Panic"
                /\ UNCHANGED <<all_tasks, ui, disk>>
           ELSE /\ pc' = pc
                /\ ui' = r.mode
                /\ IF r.task_operation # None
                   THEN LET s == handle_and_store(all_tasks, disk,
                                                  r.task_operation[1],
                                                  now, now, tz, io)
                        IN  /\ all_tasks' = s.tasks
                            /\ disk' = s.file
                            /\ result' = s.result
                            /\ op' = r.task_operation[1]
                   ELSE /\ op' = NoOp
                        /\ result' = "None"
                        /\ UNCHANGED <<all_tasks, disk>>
    /\ UNCHANGED <<now, tz, locals, snapshot, view, peer>>

\* run() is entered with the listing that init_task_listing read from the
\* data file
InitSession ==
    /\ tz \in TzOffsets
    /\ locals = None
    /\ now = end_of_day(1, tz)
    /\ \E n \in 0..MaxSessionTasks :
          all_tasks = [k \in 1..n |-> task_completed_on(<<"a">>, SessionDone)]
    /\ op = NoOp
    /\ result = "None"
    /\ snapshot = None
    /\ view = None
    /\ ui = run_mode(all_tasks)
    /\ disk = File(serialize(all_tasks))
    /\ pc = "Session"
    /\ input = None
    /\ peer = NoPeer

\* the file system has a say only in the steps that store
NextSession ==
    \E key \in Inputs, max_y \in Heights :
        \E io \in IF yields_operation(key) THEN StoreOutcomes ELSE {"Written"} :
            RunStep(key, max_y, io)

SpecSession == InitSession /\ [][NextSession]_vars

(***************************************************************************)
(* main: the command line. A run of the program is three steps: it loads   *)
(* the listing with init_task_listing, carries out the command and writes  *)
(* the listing back to the data file; pc is "Shell" between two runs. The  *)
(* listing in memory is gone when the process ends; all_tasks keeps the    *)
(* listing the last run ended with until the next run loads its own.       *)
(***************************************************************************)
\* TaskListing::new()
TaskListing_new == <<>>

\* what the file system does to init_task_listing: the data file cannot be
\* opened, cannot be read, or is read
LoadOutcomes == {"CannotOpen", "CannotRead", "Read"}

\* the parse errors that init_task_listing takes for the sign of a file that
\* was just created
fresh_file(error) ==
    \/ error.error = "ExpectedUnit" /\ error.col = 1 /\ error.line = 1
    \/ error.error = "ExpectedStruct"

\* init_task_listing: open with create(true), read_to_string, from_str
init_task_listing(file, io) ==
    LET opened == IF file.kind = "Missing" THEN File(EmptyText) ELSE file
        parsed == from_str(opened.text)
    IN  IF io = "CannotOpen"
        THEN [file |-> file, tasks |-> TaskListing_new, aborted |-> TRUE]
        ELSE IF io = "CannotRead"
        THEN [file |-> opened, tasks |-> TaskListing_new, aborted |-> TRUE]
        ELSE IF parsed.ok
        THEN [file |-> opened, tasks |-> parsed.tasks, aborted |-> FALSE]
        ELSE [file |-> opened, tasks |-> TaskListing_new,
              aborted |-> ~fresh_file(parsed.error)]

\* the number of values of a usize in the model
UsizeModulus == 16

\* how the program was built: with or without overflow checks
Builds == {"Debug", "Release"}

\* let max_index = num_tasks - 1: aborts when the overflow is checked and
\* wraps around when it is not
max_index(num_tasks, build) ==
    IF num_tasks = 0 /\ build = "Debug"
    THEN [aborted |-> TRUE, value |-> 0]
    ELSE [aborted |-> FALSE, value |-> (num_tasks - 1) % UsizeModulus]

\* the arms of match Opt::from_args(): the listing after the command, what
\* list_for_today printed, whether an error was printed, whether the
\* process aborted
Opt_New(tasks, description, now_t) ==
    [tasks |-> push(tasks, Task_new(description, now_t)), view |-> None,
     error |-> FALSE, aborted |-> FALSE]

Opt_Today(tasks, now_t, tzv) ==
    [tasks |-> tasks, view |-> Some(list_for_today(tasks, now_t, tzv)),
     error |-> FALSE, aborted |-> FALSE]

Opt_Move(tasks, from, to, now_t, tzv, build) ==
    LET max == max_index(total_tasks(tasks), build)
        moved == move_task(tasks, from, to)
    IN  IF max.aborted
        THEN [tasks |-> tasks, view |-> None, error |-> FALSE, aborted |-> TRUE]
        ELSE IF from > max.value \/ to > max.value \/ from = to
        THEN [tasks |-> tasks, view |-> None, error |-> TRUE, aborted |-> FALSE]
        ELSE IF from >= total_tasks(tasks) \/ moved.result = "Panic"
        THEN [tasks |-> tasks, view |-> None, error |-> FALSE, aborted |-> TRUE]
        ELSE [tasks |-> moved.tasks,
              view |-> Some(list_for_today(moved.tasks, now_t, tzv)),
              error |-> FALSE, aborted |-> FALSE]

Opt_Done(tasks, index, now_t, tzv, build) ==
    LET max == max_index(total_tasks(tasks), build)
        marked == mark_complete(tasks[index + 1], None, now_t, now_t, tzv)
        done == [tasks EXCEPT ![index + 1] = marked.task]
    IN  IF max.aborted
        THEN [tasks |-> tasks, view |-> None, error |-> FALSE, aborted |-> TRUE]
        ELSE IF index > max.value
        THEN [tasks |-> tasks, view |-> None, error |-> TRUE, aborted |-> FALSE]
        ELSE IF index >= total_tasks(tasks)
        THEN [tasks |-> tasks, view |-> None, error |-> FALSE, aborted |-> TRUE]
        ELSE IF marked.result # "Ok"
        THEN [tasks |-> tasks, view |-> None, error |-> TRUE, aborted |-> FALSE]
        ELSE [tasks |-> done, view |-> Some(list_for_today(done, now_t, tzv)),
              error |-> FALSE, aborted |-> FALSE]

match_opt(tasks, opt, now_t, tzv, build) ==
    CASE opt.type = "New" -> Opt_New(tasks, opt.description, now_t)
      [] opt.type = "Today" -> Opt_Today(tasks, now_t, tzv)
      [] opt.type = "Move" -> Opt_Move(tasks, opt.from, opt.to, now_t, tzv, build)
      [] opt.type = "Done" -> Opt_Done(tasks, opt.index, now_t, tzv, build)

\* longest listing of the command line specification
MaxCliTasks == 2

\* the command lines: indexes are every valid index and one past the end
CliIndexes == 0..MaxCliTasks
Opts ==
    {[type |-> "New", description |-> d] : d \in Descriptions}
    \cup {[type |-> "Today"]}
    \cup {[type |-> "Move", from |-> f, to |-> t] : f \in CliIndexes, t \in CliIndexes}
    \cup {[type |-> "Done", index |-> i] : i \in CliIndexes}

\* let mut tasks: TaskListing = init_task_listing();
Load(io) ==
    /\ pc = "Shell"
    /\ LET loaded == init_task_listing(disk, io)
       IN  /\ all_tasks' = loaded.tasks
           /\ disk' = loaded.file
           /\ pc' = IF loaded.aborted THEN "Shell" ELSE "Loaded"
           /\ result' = IF loaded.aborted THEN "Panic" ELSE "None"
    /\ input' = None
    /\ view' = None
    /\ op' = NoOp
    /\ UNCHANGED <<now, tz, locals, snapshot, ui, peer>>

\* match Opt::from_args() { .. }
Command(opt, build) ==
    /\ pc = "Loaded"
    /\ LET ran == match_opt(all_tasks, opt, now, tz, build)
       IN  /\ all_tasks' = ran.tasks
           /\ view' = ran.view
           /\ pc' = IF ran.aborted THEN "Shell" ELSE "Finalized"
           /\ result' = IF ran.aborted THEN "Panic"
                        ELSE IF ran.error THEN "Error" ELSE "Ok"
    /\ input' = Some(opt)
    /\ Len(all_tasks') <= MaxCliTasks
    /\ UNCHANGED <<now, tz, locals, op, snapshot, ui, disk, peer>>

\* the end of main: serialize, open with write and truncate, write_all; a
\* failure of either aborts
Store(io) ==
    /\ pc = "Finalized"
    /\ LET stored == store(all_tasks, disk, io)
       IN  /\ disk' = stored.file
           /\ result' = IF stored.result = "Ok" THEN result ELSE "Panic"
    /\ pc' = "Shell"
    /\ UNCHANGED <<all_tasks, now, tz, locals, op, snapshot, view, ui, input,
                   peer>>

\* the data files the first run may find: none, a text the parser rejects,
\* the listing an earlier run stored
StoredListings ==
    {TaskListing_new, <<Task_new(<<"a">>, 0)>>,
     <<task_completed_on(<<"a">>, {0}), Task_new(<<"b">>, 0)>>}

InitCli ==
    /\ all_tasks = TaskListing_new
    /\ tz \in TzOffsets
    /\ locals = None
    /\ now = end_of_day(1, tz)
    /\ op = NoOp
    /\ result = "None"
    /\ snapshot = None
    /\ view = None
    /\ ui = Ui_default
    /\ disk \in {NoFile} \cup {File(Damaged(e)) : e \in ParseErrors}
                \cup {File(serialize(l)) : l \in StoredListings}
    /\ pc = "Shell"
    /\ input = None
    /\ peer = NoPeer

\* the runs of one day
NextCli ==
    \/ \E io \in LoadOutcomes : Load(io)
    \/ \E opt \in Opts, build \in Builds : Command(opt, build)
    \/ \E io \in StoreOutcomes : Store(io)

SpecCli == InitCli /\ [][NextCli]_vars

(***************************************************************************)
(* Store and load on their own: a listing is written with                  *)
(* TaskListing::store to the data file that the first run created, and the *)
(* next run reads the file with init_task_listing.                         *)
(***************************************************************************)
\* longest listing of the store and load specification
MaxStoredTasks == 2

\* the tasks of its listings: fresh, completed without and with a remark,
\* and holding a standalone remark, which is the empty text
StoredTasks(tzv) ==
    {Task_new(<<"a">>, 0),
     task_completed_on(<<"b">>, {0}),
     mark_complete(Task_new(<<"c">>, 0), Some(<<"r">>), 1, 1, tzv).task,
     add_remark(Task_new(<<"d">>, 0), <<>>, 1).task}

\* self.store(get_tasks_path())
StoreListing(io) ==
    /\ pc = "Populated"
    /\ LET stored == store(all_tasks, disk, io)
       IN  /\ disk' = stored.file
           /\ result' = stored.result
    /\ snapshot' = Some(all_tasks)
    /\ pc' = "Stored"
    /\ UNCHANGED <<all_tasks, now, tz, locals, op, view, ui, input, peer>>

\* the next run: let mut tasks: TaskListing = init_task_listing();
LoadListing(io) ==
    /\ pc = "Stored"
    /\ LET loaded == init_task_listing(disk, io)
       IN  /\ all_tasks' = loaded.tasks
           /\ disk' = loaded.file
           /\ pc' = IF loaded.aborted THEN "Aborted" ELSE "Reloaded"
    /\ UNCHANGED <<now, tz, locals, op, result, snapshot, view, ui, input,
                   peer>>

InitStored ==
    /\ tz \in TzOffsets
    /\ locals = None
    /\ now = 1
    /\ \E n \in 0..MaxStoredTasks :
          all_tasks \in [1..n -> StoredTasks(tz)]
    /\ op = NoOp
    /\ result = "None"
    /\ snapshot = None
    /\ view = None
    /\ ui = Ui_default
    /\ disk = File(EmptyText)
    /\ pc = "Populated"
    /\ input = None
    /\ peer = NoPeer

NextStored ==
    \/ \E io \in StoreOutcomes : StoreListing(io)
    \/ \E io \in LoadOutcomes : LoadListing(io)

SpecStored == InitStored /\ [][NextStored]_vars

(***************************************************************************)
(* Two processes on one data file: the interactive session, which loaded   *)
(* the listing when it started and never loads again, and runs of the      *)
(* command line next to it. Each process has its own listing in memory;    *)
(* the file system fails neither of them.                                  *)
(***************************************************************************)
\* one turn of the session
SessionTurn(key, max_y) ==
    /\ RunStep(key, max_y, "Written")
    /\ pc' = "Session"

\* the run next to it: let mut tasks: TaskListing = init_task_listing();
PeerLoad ==
    /\ peer.pc = "Shell"
    /\ LET loaded == init_task_listing(disk, "Read")
       IN  /\ disk' = loaded.file
           /\ peer' = [pc |-> IF loaded.aborted THEN "Shell" ELSE "Loaded",
                       tasks |-> loaded.tasks,
                       result |-> IF loaded.aborted THEN "Panic" ELSE "None"]
    /\ UNCHANGED <<all_tasks, now, tz, locals, op, result, snapshot, view,
                   ui, pc, input>>

\* match Opt::from_args() { .. }
PeerCommand(opt, build) ==
    /\ peer.pc = "Loaded"
    /\ LET ran == match_opt(peer.tasks, opt, now, tz, build)
       IN  /\ Len(ran.tasks) <= MaxCliTasks
           /\ peer' = [pc |-> IF ran.aborted THEN "Shell" ELSE "Finalized",
                       tasks |-> ran.tasks,
                       result |-> IF ran.aborted THEN "Panic"
                                  ELSE IF ran.error THEN "Error" ELSE "Ok"]
    /\ UNCHANGED <<all_tasks, now, tz, locals, op, result, snapshot, view, ui, disk, pc,
                   input>>

\* the end of main
PeerStore ==
    /\ peer.pc = "Finalized"
    /\ LET stored == store(peer.tasks, disk, "Written")
       IN  /\ disk' = stored.file
           /\ peer' = [peer EXCEPT !.pc = "Shell",
                                   !.result = IF stored.result = "Ok" THEN @
                                              ELSE "Panic"]
    /\ UNCHANGED <<all_tasks, now, tz, locals, op, result, snapshot, view,
                   ui, pc, input>>

\* the session was started on the stored listing of one task
InitRace ==
    /\ tz \in TzOffsets
    /\ locals = None
    /\ now = end_of_day(1, tz)
    /\ all_tasks = <<task_completed_on(<<"a">>, SessionDone)>>
    /\ op = NoOp
    /\ result = "None"
    /\ snapshot = None
    /\ view = None
    /\ ui = run_mode(all_tasks)
    /\ disk = File(serialize(all_tasks))
    /\ pc = "Session"
    /\ input = None
    /\ peer = NoPeer

\* the commands of the run next to the session: those that change the
\* listing without moving a task
RaceOpts == {opt \in Opts : opt.type \in {"New", "Done"}}

\* the window of the session is as high as it gets
NextRace ==
    \/ \E key \in Inputs : SessionTurn(key, 5 + MaxVisible)
    \/ PeerLoad
    \/ \E opt \in RaceOpts, build \in Builds : PeerCommand(opt, build)
    \/ PeerStore

SpecRace == InitRace /\ [][NextRace]_vars

(***************************************************************************)
(* Properties of operation handling                                        *)
(***************************************************************************)
TaskErrors == {"MissingDescription", "NotFound", "AlreadyCompleted", "RedundantMove"}

\* number of completions of a task that fall on a local date
CompletionsOnDay(task, date) ==
    Cardinality({k \in 1..Len(task.completions) :
                    LocalDate(task.completions[k].datetime, tz) = date})

\* C1: whenever handle_operation returns an error (MissingDescription,
\* NotFound, AlreadyCompleted or RedundantMove) the listing after the call is
\* the listing before it: same order, and the same revisions, completions and
\* remarks of every task.
C1_ErrorLeavesListingUnchanged ==
    [][result' \in TaskErrors => all_tasks' = all_tasks]_vars

\* MarkComplete was refused on a task that holds a completion
C1_Witness ==
    /\ op.type = "MarkComplete"
    /\ result = "AlreadyCompleted"
    /\ all_tasks[op.task_index + 1].completions # <<>>

\* C2: in every reachable state no task holds two completions whose
\* timestamps fall on the same local calendar day.
C2_OneCompletionPerLocalDay ==
    \A n \in 1..Len(all_tasks) :
        \A j, k \in 1..Len(all_tasks[n].completions) :
            j # k => LocalDate(all_tasks[n].completions[j].datetime, tz)
                     # LocalDate(all_tasks[n].completions[k].datetime, tz)

\* a task completed on two days, the second time on a day whose UTC date
\* differs from its local date
C2_Witness ==
    \E n \in 1..Len(all_tasks) :
        /\ Len(all_tasks[n].completions) = 2
        /\ all_tasks[n].completions[2].datetime \div DayLen
           # LocalDate(all_tasks[n].completions[2].datetime, tz)

\* C3: a MarkComplete of a valid index whose task has no completion on the
\* current local day returns Ok, and a second MarkComplete of the same index,
\* right after it or later within the same local day (with or without a
\* remark), returns AlreadyCompleted and leaves the task with exactly one
\* completion for that day.
C3_MarkCompleteTwice ==
    [][(op'.type = "MarkComplete" /\ op'.task_index < Len(all_tasks)) =>
          LET i == op'.task_index
              task == all_tasks[i + 1]
              today == LocalDate(now, tz)
          IN  /\ CompletionsOnDay(task, today) = 0 =>
                    /\ result' = "Ok"
                    /\ CompletionsOnDay(all_tasks'[i + 1], LocalDate(now', tz)) = 1
              /\ ( \/ (op.type = "MarkComplete" /\ op.task_index = i /\ result = "Ok")
                   \/ CompletionsOnDay(task, today) >= 1 ) =>
                    /\ result' = "AlreadyCompleted"
                    /\ CompletionsOnDay(all_tasks'[i + 1], today) = 1
      ]_vars

\* the second call, with a remark, was refused later on the day of the only
\* completion
C3_Witness ==
    /\ op.type = "MarkComplete"
    /\ op.remark # None
    /\ result = "AlreadyCompleted"
    /\ Len(all_tasks[op.task_index + 1].completions) = 1
    /\ all_tasks[op.task_index + 1].completions[1].datetime < now
    /\ CompletionsOnDay(all_tasks[op.task_index + 1], LocalDate(now, tz)) = 1

\* C4: for a valid index, MarkComplete returns AlreadyCompleted if and only
\* if the task already has a completion dated the current local day;
\* otherwise it returns Ok and appends exactly one completion, in particular
\* once the local date is past the day of the task's latest completion.
C4_AlreadyCompletedIffDoneToday ==
    [][(op'.type = "MarkComplete" /\ op'.task_index < Len(all_tasks)) =>
          LET i == op'.task_index
              task == all_tasks[i + 1]
              n == Len(task.completions)
              today == LocalDate(now, tz)
              done == \E k \in 1..n :
                         LocalDate(task.completions[k].datetime, tz) = today
              appended ==
                 /\ result' = "Ok"
                 /\ Len(all_tasks'[i + 1].completions) = n + 1
                 /\ SubSeq(all_tasks'[i + 1].completions, 1, n) = task.completions
                 /\ all_tasks'[i + 1].completions[n + 1].datetime = now'
          IN  /\ result' = "AlreadyCompleted" <=> done
              /\ ~done => appended
              /\ (n > 0 /\ LocalDate(task.completions[n].datetime, tz) < today)
                    => appended
      ]_vars

\* a task completed again on a later local day
C4_Witness ==
    /\ op.type = "MarkComplete"
    /\ result = "Ok"
    /\ LET c == all_tasks[op.task_index + 1].completions
       IN  /\ Len(c) = 2
           /\ LocalDate(c[1].datetime, tz) < LocalDate(c[2].datetime, tz)

\* C5: MarkComplete and AddRemark with task_index >= the listing's length
\* return NotFound, whatever the remark and whatever the listing (the empty
\* one included).
C5_IndexPastEndNotFound ==
    (op.type \in {"MarkComplete", "AddRemark"} /\ op.task_index >= Len(all_tasks))
        => result = "NotFound"

\* MarkComplete with a remark, one past the end of a listing whose tasks are
\* all completed today
C5_Witness ==
    /\ op.type = "MarkComplete"
    /\ op.remark # None
    /\ Len(all_tasks) > 0
    /\ op.task_index = Len(all_tasks)
    /\ result = "NotFound"
    /\ \A n \in 1..Len(all_tasks) :
          CompletionsOnDay(all_tasks[n], LocalDate(now, tz)) = 1

\* C6: Add with a description of at least one character returns Ok and the
\* listing grows by exactly one task; Add with the empty description returns
\* MissingDescription and the length stays.
C6_AddResultAndLength ==
    [][op'.type = "Add" =>
          IF Len(op'.description) >= 1
          THEN result' = "Ok" /\ Len(all_tasks') = Len(all_tasks) + 1
          ELSE result' = "MissingDescription" /\ Len(all_tasks') = Len(all_tasks)
      ]_vars

\* the empty description was refused on a listing that holds a task
C6_Witness ==
    /\ op.type = "Add"
    /\ op.description = <<>>
    /\ result = "MissingDescription"
    /\ Len(all_tasks) = 1

\* C7: a successful Add on a listing of length n puts the new task at index n
\* with exactly one revision (revision_id 0, the given description) and no
\* completions or remarks, and leaves the tasks at indices 0..n-1 where and
\* as they were.
C7_AddAppendsFreshTask ==
    [][(op'.type = "Add" /\ result' = "Ok") =>
          LET n == Len(all_tasks)
          IN  /\ Len(all_tasks') = n + 1
              /\ Len(all_tasks'[n + 1].detail_history) = 1
              /\ all_tasks'[n + 1].detail_history[1].revision_id = 0
              /\ all_tasks'[n + 1].detail_history[1].description = op'.description
              /\ all_tasks'[n + 1].completions = <<>>
              /\ all_tasks'[n + 1].remarks = <<>>
              /\ \A k \in 1..n : all_tasks'[k] = all_tasks[k]
      ]_vars

\* a task was added behind a task that holds a completion
C7_Witness ==
    /\ op.type = "Add"
    /\ result = "Ok"
    /\ Len(all_tasks) = 2
    /\ all_tasks[1].completions # <<>>
    /\ all_tasks[2].completions = <<>>

(***************************************************************************)
(* Properties of Reorder                                                   *)
(***************************************************************************)
\* the description of every task, in listing order
Names(tasks) == [k \in 1..Len(tasks) |-> tasks[k].detail_history[1].description]

\* C8: on a listing of length n, Reorder{from, to} returns NotFound whenever
\* from >= n or to >= n (also when from = to, so always on the empty listing)
\* and returns RedundantMove exactly when from = to and from < n.
C8_ReorderErrors ==
    op.type = "Reorder" =>
        LET n == Len(all_tasks)
        IN  /\ (op.from >= n \/ op.to >= n) => result = "NotFound"
            /\ result = "RedundantMove" <=> (op.from = op.to /\ op.from < n)

\* from = to on the empty listing
C8_Witness ==
    /\ op.type = "Reorder"
    /\ op.from = op.to
    /\ all_tasks = <<>>
    /\ result = "NotFound"

\* where the task at index k is after a move of from to
NewIndex(k, from, to) ==
    IF k = from THEN to
    ELSE IF from < k /\ k <= to THEN k - 1
    ELSE IF to <= k /\ k < from THEN k + 1
    ELSE k

\* C9: a successful Reorder{from, to} is a splice: the task at from is at to
\* afterwards, every task between from and to (to included) has moved one
\* slot toward from, and every task outside the range keeps its index; moving
\* 0 to 2 in [A,B,C,D] gives [B,C,A,D].
C9_ReorderIsSplice ==
    [][(op'.type = "Reorder" /\ result' = "Ok") =>
          LET f == op'.from
              t == op'.to
          IN  /\ Len(all_tasks') = Len(all_tasks)
              /\ \A k \in 0..(Len(all_tasks) - 1) :
                    all_tasks'[NewIndex(k, f, t) + 1] = all_tasks[k + 1]
              /\ (Names(all_tasks) = <<(<<"A">>), (<<"B">>), (<<"C">>), (<<"D">>)>>
                  /\ f = 0 /\ t = 2)
                    => Names(all_tasks')
                       = <<(<<"B">>), (<<"C">>), (<<"A">>), (<<"D">>)>>
      ]_vars

\* [B,C,A,D] after moving 0 to 2
C9_Witness ==
    /\ op = [type |-> "Reorder", from |-> 0, to |-> 2]
    /\ result = "Ok"
    /\ Names(all_tasks) = <<(<<"B">>), (<<"C">>), (<<"A">>), (<<"D">>)>>

\* a sequence without its element at position i (counted from 1)
Without(s, i) == [k \in 1..(Len(s) - 1) |-> IF k < i THEN s[k] ELSE s[k + 1]]

\* C10: a successful Reorder permutes the listing: the length and the tasks
\* (each with its contents, as often as before) are the same, the indices
\* stay dense, and the tasks other than the moved one are in the same
\* relative order.
C10_ReorderIsPermutation ==
    [][(op'.type = "Reorder" /\ result' = "Ok") =>
          /\ DOMAIN all_tasks' = 1..Len(all_tasks)
          /\ \A x \in {all_tasks[k] : k \in 1..Len(all_tasks)} :
                Cardinality({k \in 1..Len(all_tasks') : all_tasks'[k] = x})
                = Cardinality({k \in 1..Len(all_tasks) : all_tasks[k] = x})
          /\ Without(all_tasks', op'.to + 1) = Without(all_tasks, op'.from + 1)
      ]_vars

\* four different tasks after a move toward the front
C10_Witness ==
    /\ op = [type |-> "Reorder", from |-> 3, to |-> 1]
    /\ result = "Ok"
    /\ Cardinality({all_tasks[k] : k \in 1..Len(all_tasks)}) = 4

\* C11: for every listing and every two distinct in-range indices a and b,
\* Reorder{from: a, to: b} directly followed by Reorder{from: b, to: a}
\* succeeds twice and leaves the listing in the order it had before the first
\* of the two.
C11_ReorderBackRestores ==
    [][(/\ op.type = "Reorder" /\ result = "Ok"
        /\ op'.type = "Reorder" /\ op'.from = op.to /\ op'.to = op.from) =>
          /\ result' = "Ok"
          /\ all_tasks' = snapshot[1]
      ]_vars

\* [A, B, C, D] became [B, C, A, D] by moving 0 to 2 and is back after
\* moving 2 to 0
C11_Witness ==
    /\ op = [type |-> "Reorder", from |-> 2, to |-> 0]
    /\ result = "Ok"
    /\ snapshot # None
    /\ Names(snapshot[1]) = <<(<<"B">>), (<<"C">>), (<<"A">>), (<<"D">>)>>
    /\ Names(all_tasks) = <<(<<"A">>), (<<"B">>), (<<"C">>), (<<"D">>)>>

C13_AddRemarkAppends ==
    [][(op'.type = "AddRemark" /\ op'.task_index < Len(all_tasks)) =>
          LET i == op'.task_index
              task == all_tasks[i + 1]
              n == Len(task.remarks)
          IN  /\ result' = "Ok"
              /\ Len(all_tasks') = Len(all_tasks)
              /\ Len(all_tasks'[i + 1].remarks) = n + 1
              /\ SubSeq(all_tasks'[i + 1].remarks, 1, n) = task.remarks
              /\ all_tasks'[i + 1].remarks[n + 1].remark = op'.text
              /\ all_tasks'[i + 1].completions = task.completions
              /\ all_tasks'[i + 1].detail_history = task.detail_history
              /\ \A k \in 1..Len(all_tasks) : k # i + 1 => all_tasks'[k] = all_tasks[k]
      ]_vars

\* an empty remark was added to a task that is completed today
C13_Witness ==
    /\ op.type = "AddRemark"
    /\ op.text = <<>>
    /\ result = "Ok"
    /\ LET task == all_tasks[op.task_index + 1]
       IN  /\ CompletionsOnDay(task, LocalDate(now, tz)) = 1
           /\ Len(task.remarks) = 1
           /\ task.remarks[1].remark = <<>>

(***************************************************************************)
(* Properties of the history view                                          *)
(***************************************************************************)
\* the task at index n - 1 has a completion on the local date
DoneOn(n, date) == CompletionsOnDay(all_tasks[n], date) >= 1

Streak == <<"-", "o", "-">>
NoStreak == <<" ", " ", " ">>
BlankCell == <<" ", " ", " ", " ">>

\* what a cell shows behind its bar
Shown(cell) == cell.mark \o cell.conn \o cell.fill

\* the rows of the printed grid
Rows == view[1].rows

\* the task of row n has no completion on the dates of the cells before the
\* i-th
NoneDoneBefore(n, i) ==
    \A j \in 1..(i - 1) : ~DoneOn(n, Rows[n].cells[j].date)

\* C14: in every row, every day of the window before today that has no
\* completion and has a completed day before it in the window shows the
\* missed marker x, the second and later days of a run of missed days
\* included.
C14_EveryMissedDayMarked ==
    view # None =>
        \A n \in 1..Len(Rows) :
            \A i \in 1..Len(Rows[n].cells) :
                LET cell == Rows[n].cells[i]
                IN  (/\ cell.date < view[1].today
                     /\ ~DoneOn(n, cell.date)
                     /\ ~NoneDoneBefore(n, i))
                        => cell.mark = <<"x">>

\* C15: in every row a day before today without completion is blank while
\* no earlier day of the window was completed; so the row of a task with no
\* completion in the window is blank on every day before today, pending on
\* today, and holds no missed marker.
C15_BlankUntilFirstCompletion ==
    view # None =>
        \A n \in 1..Len(Rows) :
            LET cells == Rows[n].cells
            IN  /\ \A i \in 1..Len(cells) :
                      (/\ cells[i].date < view[1].today
                       /\ ~DoneOn(n, cells[i].date)
                       /\ NoneDoneBefore(n, i))
                          => cells[i].mark = <<" ">>
                /\ NoneDoneBefore(n, Len(cells) + 1) =>
                      \A i \in 1..Len(cells) :
                          /\ cells[i].date < view[1].today => cells[i].mark = <<" ">>
                          /\ cells[i].date = view[1].today => cells[i].mark = <<"?">>
                          /\ cells[i].mark # <<"x">>

\* a task completed only before the window, shown over two past days and
\* today
C15_Witness ==
    /\ view # None
    /\ view[1].start >= 1
    /\ view[1].today >= view[1].start + 2
    /\ view[1].end >= view[1].today
    /\ \E n \in 1..Len(Rows) :
          /\ DoneOn(n, view[1].start - 1)
          /\ NoneDoneBefore(n, Len(Rows[n].cells) + 1)
          /\ Rows[n].cells[1].mark = <<" ">>
          /\ Rows[n].cells[2].mark = <<" ">>

\* C16 as stated: between the columns of a day d and of the day d + 1 the
\* streak connector is rendered only if d was completed and d + 1 is not
\* today; every other transition renders a blank connector.
C16_ConnectorUnlessNextIsToday ==
    view # None =>
        \A n \in 1..Len(Rows) :
            \A i \in 1..(Len(Rows[n].cells) - 1) :
                LET cell == Rows[n].cells[i]
                    streak == DoneOn(n, cell.date) /\ cell.date + 1 # view[1].today
                IN  /\ cell.conn = Streak => streak
                    /\ ~streak => (cell.conn = NoStreak \/ Shown(cell) = BlankCell)

\* C16, amended: between the columns of a day d and of the day d + 1 the
\* streak connector is rendered if and only if d was completed and d is
\* before today; every other transition renders a blank connector.
C16_ConnectorAfterCompletedPastDay ==
    view # None =>
        \A n \in 1..Len(Rows) :
            \A i \in 1..(Len(Rows[n].cells) - 1) :
                LET cell == Rows[n].cells[i]
                IN  IF DoneOn(n, cell.date) /\ cell.date < view[1].today
                    THEN cell.conn = Streak
                    ELSE IF cell.date <= view[1].today
                    THEN cell.conn = NoStreak
                    ELSE Shown(cell) = BlankCell

\* a row with a connector from a completed yesterday into today's column
\* and none behind a completed today
C16_Witness ==
    /\ view # None
    /\ \E n \in 1..Len(Rows) :
          \E i \in 1..(Len(Rows[n].cells) - 2) :
              LET cells == Rows[n].cells
              IN  /\ cells[i + 1].date = view[1].today
                  /\ cells[i].mark = <<"o">>
                  /\ cells[i].conn = Streak
                  /\ cells[i + 1].mark = <<"o">>
                  /\ cells[i + 1].conn = NoStreak

\* C17: in every row today's column shows the pending marker ? when the task
\* has no completion today, whatever happened on the earlier days of the
\* window; the pending marker is neither the missed marker nor a blank.
C17_TodayPending ==
    view # None =>
        \A n \in 1..Len(Rows) :
            \A i \in 1..Len(Rows[n].cells) :
                LET cell == Rows[n].cells[i]
                IN  (cell.date = view[1].today /\ ~DoneOn(n, cell.date))
                        => (cell.mark = <<"?">> /\ cell.mark \notin {<<"x">>, <<" ">>})

\* two rows pending today: one behind a completed and a missed day, one
\* right behind a completed day
C17_Witness ==
    /\ view # None
    /\ Len(Rows) = 2
    /\ Len(Rows[1].cells) >= 3
    /\ LET i == view[1].today - view[1].start + 1
       IN  /\ i = 3
           /\ Rows[1].cells[i].mark = <<"?">>
           /\ Rows[1].cells[i - 1].mark = <<"x">>
           /\ Rows[1].cells[i - 2].mark = <<"o">>
           /\ Rows[2].cells[i].mark = <<"?">>
           /\ Rows[2].cells[i - 1].mark = <<"o">>

\* C18: in every row every day of the window after today is a blank cell:
\* four blanks behind the bar, no status marker and no streak connector,
\* whatever the task's completions are.
C18_FutureBlank ==
    view # None =>
        \A n \in 1..Len(Rows) :
            \A i \in 1..Len(Rows[n].cells) :
                LET cell == Rows[n].cells[i]
                IN  cell.date > view[1].today =>
                        /\ Shown(cell) = BlankCell
                        /\ cell.mark = <<>>
                        /\ cell.conn = <<>>

\* two days after today behind a completed today
C18_Witness ==
    /\ view # None
    /\ view[1].end >= view[1].today + 2
    /\ view[1].start <= view[1].today
    /\ \E n \in 1..Len(Rows) :
          LET cells == Rows[n].cells
              i == view[1].today - view[1].start + 1
          IN  /\ DoneOn(n, view[1].today)
              /\ cells[i].mark = <<"o">>
              /\ Shown(cells[i + 1]) = BlankCell
              /\ Shown(cells[i + 2]) = BlankCell

\* C19: the window [today, today] of a task completed today is the single
\* column |o with nothing behind it; in every window no connector, streak
\* or blank, is printed behind the last column.
C19_LastColumnNoConnector ==
    view # None =>
        \A n \in 1..Len(Rows) :
            LET cells == Rows[n].cells
                last == cells[Len(cells)]
            IN  /\ (/\ view[1].start = view[1].today
                     /\ view[1].end = view[1].today
                     /\ DoneOn(n, view[1].today))
                        => cells = <<[date |-> view[1].today, bar |-> <<"|">>,
                                      mark |-> <<"o">>, conn |-> <<>>,
                                      fill |-> <<>>]>>
                /\ Len(cells) >= 1 => last.conn = <<>>

\* the window [today, today] with a task completed today and yesterday
C19_Witness ==
    /\ view # None
    /\ view[1].start = view[1].today
    /\ view[1].end = view[1].today
    /\ \E n \in 1..Len(Rows) :
          /\ DoneOn(n, view[1].today)
          /\ DoneOn(n, view[1].today - 1)
          /\ Len(Rows[n].cells) = 1
          /\ Rows[n].cells[1].mark = <<"o">>
          /\ Shown(Rows[n].cells[1]) = <<"o">>

NextMarker == <<"(", "n", "e", "x", "t", ")">>

\* the indices (from 1) of the tasks with no completion on the current local
\* day
NotDoneToday ==
    {n \in 1..Len(all_tasks) : CompletionsOnDay(all_tasks[n], LocalDate(now, tz)) = 0}

\* C21: the today view prints one row per task, in the order of the listing;
\* the row of the lowest-index task that has no completion today carries the
\* "(next)" marker and no other row does, so no row is marked when every task
\* is completed today.
C21_NextOnFirstOpenTask ==
    view # None =>
        LET rows == view[1].rows
        IN  /\ Len(rows) = Len(all_tasks)
            /\ \A n \in 1..Len(rows) :
                  LET description == all_tasks[n].detail_history[1].description
                  IN  /\ rows[n].n = n - 1
                      /\ SubSeq(rows[n].description, 1, Len(description)) = description
                      /\ rows[n].next \in {NextMarker, <<>>}
                      /\ rows[n].next = NextMarker <=>
                            (n \in NotDoneToday /\ \A k \in NotDoneToday : n <= k)

\* three tasks: the first completed today, the second, marked, completed
\* yesterday only, the third never completed and not marked
C21_Witness ==
    /\ view # None
    /\ Len(view[1].rows) = 3
    /\ NotDoneToday = {2, 3}
    /\ all_tasks[2].completions # <<>>
    /\ view[1].rows[1].next = <<>>
    /\ view[1].rows[2].next = NextMarker
    /\ view[1].rows[3].next = <<>>

\* the longest description of the listing, in characters
LongestDescription ==
    LET lens == {Len(all_tasks[n].detail_history[1].description) :
                    n \in 1..Len(all_tasks)} \cup {0}
    IN  CHOOSE x \in lens : \A y \in lens : y <= x

\* C22 as stated: in the today view the width of the description column is
\* the smallest multiple of 4 that is at least the longest description.
C22_WidthSmallestMultipleAtLeast ==
    view # None =>
        LET w == view[1].description_width
        IN  /\ w % 4 = 0
            /\ w >= LongestDescription
            /\ w - 4 < LongestDescription

\* C22, amended: the width of the description column is the smallest
\* multiple of 4 that is greater than the longest description, so that the
\* column ends in at least one blank; every description is padded with
\* blanks to that width.
C22_WidthSmallestMultipleAbove ==
    view # None =>
        LET w == view[1].description_width
        IN  /\ w % 4 = 0
            /\ w > LongestDescription
            /\ w - 4 <= LongestDescription
            /\ \A n \in 1..Len(view[1].rows) :
                  /\ Len(view[1].rows[n].description) = w
                  /\ view[1].rows[n].description[w] = " "

\* the longest description has 4 characters and the column is 8 wide
C22_Witness ==
    /\ view # None
    /\ Len(all_tasks) >= 2
    /\ LongestDescription = 4
    /\ view[1].description_width = 8

(***************************************************************************)
(* Properties of the interactive session                                   *)
(***************************************************************************)
\* a turn of the loop of run() on a listing that holds a task
SessionStep == pc = "Session" /\ pc' = "Session" /\ Len(all_tasks) > 0

\* C23: in the session on a listing of n >= 1 tasks the selected index is
\* always one of 0..n-1; KeyUp lowers it by exactly one unless it is 0,
\* KeyDown raises it by exactly one unless it is n-1, at these two ends it
\* stays, and no other input moves it.
C23_SelectionClamped ==
    [][SessionStep =>
          LET n == Len(all_tasks)
              i == ui.task_index[1]
              j == ui'.task_index[1]
              key == input'[1].key
          IN  /\ ui'.task_index # None
              /\ j \in 0..(n - 1)
              /\ key = "KeyUp" => j = IF i > 0 THEN i - 1 ELSE i
              /\ key = "KeyDown" => j = IF i < n - 1 THEN i + 1 ELSE i
              /\ key \notin {"KeyUp", "KeyDown"} => j = i
      ]_vars

\* after a KeyDown the last of three tasks is selected
C23_Witness ==
    /\ pc = "Session"
    /\ Len(all_tasks) = 3
    /\ input # None
    /\ input[1].key = "KeyDown"
    /\ ui.task_index = Some(2)
    /\ ui.prev_index = Some(1)

\* C24: after every turn of the session in a window that shows v >= 1 rows
\* of tasks the selection is inside the window,
\* scroll_pos <= task_index < scroll_pos + v; scroll_pos stays when the
\* selection is inside the window it had, becomes the selection when that is
\* above it, and becomes task_index - v + 1 when that is below it.
C24_SelectionVisible ==
    [][(SessionStep /\ input'[1].max_y - 5 >= 1) =>
          LET v == input'[1].max_y - 5
              j == ui'.task_index[1]
              s == ui.scroll_pos
          IN  /\ ui'.scroll_pos <= j
              /\ j < ui'.scroll_pos + v
              /\ (s <= j /\ j < s + v) => ui'.scroll_pos = s
              /\ j < s => ui'.scroll_pos = j
              /\ j >= s + v => ui'.scroll_pos = j - v + 1
      ]_vars

\* the third task is selected in a window of two rows that starts at the
\* second task
C24_Witness ==
    /\ pc = "Session"
    /\ input # None
    /\ input[1].max_y = 7
    /\ ui.task_index = Some(2)
    /\ ui.scroll_pos = 1

\* C25: on a listing that holds a task a turn of the session yields an
\* operation if and only if the input is the space character, and that
\* operation is MarkComplete without remark for the selected index; every
\* other input yields no operation and leaves the listing as it was.
C25_OnlySpaceCompletes ==
    [][SessionStep =>
          LET key == input'[1].key
          IN  /\ op'.type # "None" <=> key = "Space"
              /\ key = "Space" =>
                    op' = [type |-> "MarkComplete",
                           task_index |-> ui.task_index[1],
                           remark |-> None]
              /\ key # "Space" => all_tasks' = all_tasks
      ]_vars

\* the space character completed the second task
C25_Witness ==
    /\ pc = "Session"
    /\ input # None
    /\ input[1].key = "Space"
    /\ op = [type |-> "MarkComplete", task_index |-> 1, remark |-> None]
    /\ result = "Ok"
    /\ ui.task_index = Some(1)

\* C26: in a session started on the empty listing no index is selected and
\* every input, the space character included, is a no-op: it yields no
\* operation, leaves the navigation state and the listing as they were, and
\* the session keeps running.
C26_EmptyListingNoOp ==
    [][(pc = "Session" /\ Len(all_tasks) = 0) =>
          /\ ui.task_index = None
          /\ pc' = "Session"
          /\ op' = NoOp
          /\ ui' = ui
          /\ all_tasks' = all_tasks
      ]_vars

\* the listing the data file holds, if its text is one the serializer wrote
Persisted ==
    IF disk.kind = "File" /\ from_str(disk.text).ok
    THEN Some(from_str(disk.text).tasks)
    ELSE None

\* C27: in a session that starts with the data file holding the listing,
\* and with no other writer, the data file holds the in-memory listing
\* whenever the next input is read, whatever handle_and_store returned.
C27_PersistedEqualsMemory ==
    pc = "Session" => Persisted = Some(all_tasks)

(***************************************************************************)
(* Properties of the command line                                          *)
(***************************************************************************)
\* the data file exists and holds a text that is not empty and that
\* from_str rejects
Unparsable(file) ==
    /\ file.kind = "File"
    /\ file.text # EmptyText
    /\ ~from_str(file.text).ok

\* C28: init_task_listing hands out an empty listing in place of the data
\* only for a data file that was just created or is empty; when it finds a
\* data file with a text that cannot be read or parsed, the run aborts
\* there, the data file stays as it was and nothing is stored.
C28_ParseFailureAborts ==
    [][(pc = "Shell" /\ Unparsable(disk)) =>
          /\ pc' = "Shell"
          /\ result' = "Panic"
          /\ disk' = disk
      ]_vars

\* C29: whatever was run, `new` included, every task of the listing has a
\* current description of at least one character.
C29_DescriptionsNonEmpty ==
    \A k \in 1..Len(all_tasks) :
        Len(all_tasks[k].detail_history[1].description) >= 1

(***************************************************************************)
(* Properties of handle_operation as a total function                      *)
(***************************************************************************)
\* C30: every call of handle_operation, whatever the listing and whatever
\* the indexes of the operation, returns Ok, MissingDescription, NotFound,
\* AlreadyCompleted or RedundantMove: it neither aborts nor returns
\* StoreFailed, and a Reorder that gets as far as the insert inserts at a
\* position that is at most the length of the list after the removal.
C30_HandleOperationTotal ==
    [][op' # NoOp =>
          /\ result' \in {"Ok"} \cup TaskErrors
          /\ (op'.type = "Reorder" /\ result' \notin TaskErrors =>
                 op'.to <= Len(VecRemove(all_tasks, op'.from)))
      ]_vars

\* a Reorder to the last index went through: the insert position was the
\* length of the list after the removal
C30_Witness ==
    /\ op # NoOp
    /\ op.type = "Reorder"
    /\ result = "Ok"
    /\ op.from < op.to
    /\ op.to = Len(all_tasks) - 1

(***************************************************************************)
(* Frame and growth of the listing                                         *)
(***************************************************************************)
\* C32: a MarkComplete{i, remark} that returns Ok appends exactly one
\* completion to the task at index i, stamped with the instant the handler
\* read; its remark is None when none was supplied and otherwise the
\* supplied text with the same timestamp. The revisions and the standalone
\* remarks of that task, every other task and the order are as before.
C32_MarkCompleteFrame ==
    [][(op'.type = "MarkComplete" /\ result' = "Ok") =>
          LET i == op'.task_index + 1
              added == [datetime |-> now',
                        remark |-> IF op'.remark = None THEN None
                                   ELSE Some([datetime |-> now',
                                              remark |-> op'.remark[1]])]
          IN  /\ Len(all_tasks') = Len(all_tasks)
              /\ all_tasks'[i].completions =
                     Append(all_tasks[i].completions, added)
              /\ all_tasks'[i].detail_history = all_tasks[i].detail_history
              /\ all_tasks'[i].remarks = all_tasks[i].remarks
              /\ \A k \in 1..Len(all_tasks) : k # i => all_tasks'[k] = all_tasks[k]
      ]_vars

\* the second task of two was completed with a remark
C32_Witness ==
    /\ op.type = "MarkComplete"
    /\ op.remark # None
    /\ op.task_index = 1
    /\ result = "Ok"
    /\ Len(all_tasks) = 2
    /\ all_tasks[2].completions[1].remark = Some([datetime |-> now, remark |-> op.remark[1]])

\* s is a prefix of t
IsPrefix(s, t) == Len(s) <= Len(t) /\ SubSeq(t, 1, Len(s)) = s

\* task `later` is task `earlier` with completions and remarks appended
GrownFrom(earlier, later) ==
    /\ later.detail_history = earlier.detail_history
    /\ IsPrefix(earlier.completions, later.completions)
    /\ IsPrefix(earlier.remarks, later.remarks)

\* C33: over every step the listing only grows: its length does not
\* decrease, every task of the listing before the step is a task of the
\* listing after it (at its own position or, after a Reorder, at another),
\* with its earlier completions and remarks as a prefix of the later ones,
\* and every task keeps a revision history of one revision with id 0.
C33_GrowOnly ==
    [][/\ Len(all_tasks') >= Len(all_tasks)
       /\ \E f \in [1..Len(all_tasks) -> 1..Len(all_tasks')] :
              /\ \A j, k \in 1..Len(all_tasks) : j # k => f[j] # f[k]
              /\ \A k \in 1..Len(all_tasks) :
                     GrownFrom(all_tasks[k], all_tasks'[f[k]])
       /\ \A k \in 1..Len(all_tasks') :
              /\ Len(all_tasks'[k].detail_history) = 1
              /\ all_tasks'[k].detail_history[1].revision_id = 0
      ]_vars

\* a listing of two tasks, one of them completed, was reordered
C33_Witness ==
    /\ op.type = "Reorder"
    /\ result = "Ok"
    /\ Len(all_tasks) = 2
    /\ \E k \in 1..2 : Len(all_tasks[k].completions) = 1

(***************************************************************************)
(* The previous index of the interactive session                           *)
(***************************************************************************)
\* C40: in the session on a listing that holds a task, a turn that changes
\* the selection sets prev_index to the index that was selected before it,
\* and a turn that leaves the selection where it was, a move blocked at the
\* first or the last task included, leaves prev_index as it was; so
\* prev_index, once set, is an index of the listing next to the selection.
C40_PrevIndexNextToSelection ==
    [][SessionStep =>
          /\ ui'.task_index # ui.task_index => ui'.prev_index = ui.task_index
          /\ ui'.task_index = ui.task_index => ui'.prev_index = ui.prev_index
          /\ ui'.prev_index # None =>
                /\ ui'.prev_index[1] \in 0..(Len(all_tasks') - 1)
                /\ ui'.prev_index[1] - ui'.task_index[1] \in {-1, 1}
      ]_vars

\* after a KeyDown in a window of one row the last of three tasks is
\* selected and the second is the previous index
C40_Witness ==
    /\ pc = "Session"
    /\ Len(all_tasks) = 3
    /\ input # None
    /\ input[1].key = "KeyDown"
    /\ op = NoOp
    /\ result = "None"
    /\ ui.task_index = Some(2)
    /\ ui.prev_index = Some(1)
    /\ ui.scroll_pos = 2

(***************************************************************************)
(* Properties of the store                                                 *)
(***************************************************************************)
\* C35: when store returns StoreFailed the data file is as it was before
\* the call: not empty, not cut short, not partly written.
C35_FailedStoreKeepsFile ==
    [][(pc = "Session" /\ result' = "StoreFailed") => disk' = disk]_vars

\* C36: when handle_operation returns one of its errors, handle_and_store
\* returns that error and does not store: the data file and the listing in
\* memory are as they were before the call.
C36_NoStoreAfterError ==
    [][(pc = "Session" /\ op' # NoOp /\ result' # "Ok") =>
          \/ /\ result' \in TaskErrors
             /\ result' = handle_operation(all_tasks, op', now, now, tz).result
             /\ disk' = disk
             /\ all_tasks' = all_tasks
          \/ /\ result' = "StoreFailed"
             /\ handle_operation(all_tasks, op', now, now, tz).result = "Ok"
      ]_vars

\* the space character on a task that is completed today: AlreadyCompleted
\* came back, and the data file holds the listing
C36_Witness ==
    /\ pc = "Session"
    /\ op # NoOp
    /\ op.type = "MarkComplete"
    /\ result = "AlreadyCompleted"
    /\ Persisted = Some(all_tasks)

(***************************************************************************)
(* Alignment of the history view                                           *)
(***************************************************************************)
\* C38: in every row every day of the window that is not after today holds
\* exactly one status character, and every cell but the last of a row is as
\* wide as the cell of the header above it.
C38_OneStatusCharPerDay ==
    view # None =>
        \A n \in 1..Len(Rows) :
            \A i \in 1..Len(Rows[n].cells) :
                LET cell == Rows[n].cells[i]
                IN  /\ cell.date <= view[1].today => Len(cell.mark) = 1
                    /\ i < Len(Rows[n].cells) =>
                          Len(cell.bar \o Shown(cell)) = Len(view[1].header[i].text)

(***************************************************************************)
(* Index checks of the command line                                        *)
(***************************************************************************)
\* the command names an index that is no index of the listing
OutOfRange(opt, tasks) ==
    \/ opt.type = "Move" /\ (opt.from >= Len(tasks) \/ opt.to >= Len(tasks))
    \/ opt.type = "Done" /\ opt.index >= Len(tasks)

\* C37: `move` and `done` with an index outside the listing print an error
\* and go on to the end of main with the listing as it was loaded, whatever
\* the length of the listing, the empty one included: the run does not
\* abort.
C37_OutOfRangeReported ==
    [][(pc = "Loaded" /\ input' # None /\ OutOfRange(input'[1], all_tasks)) =>
          /\ pc' = "Finalized"
          /\ result' = "Error"
          /\ all_tasks' = all_tasks
      ]_vars

DoneTodayIn(tasks, i) ==
    i < Len(tasks) /\ completed_today(tasks[i + 1], now, tz) # None

\* C34: nothing locks the data file between two processes. A store of the
\* session and a store of a run of the command line each put the listing of
\* the storing process in the place of whatever the file holds, so that,
\* when both loaded the same listing, the change of the process that stored
\* first is missing from the file after the second store.
C34_StoreOverwrites ==
    [][/\ (peer.pc = "Finalized" /\ peer'.pc = "Shell") =>
              Persisted' = Some(peer.tasks)
       /\ (peer' = peer /\ op' # NoOp /\ result' = "Ok") =>
              Persisted' = Some(all_tasks')
      ]_vars

\* the session completed its task and stored, the run of `new` next to it
\* stored after that: the file holds the new task and lacks the completion
C34_Witness ==
    /\ DoneTodayIn(all_tasks, 0)
    /\ op # NoOp
    /\ result = "Ok"
    /\ peer.pc = "Shell"
    /\ peer.result = "Ok"
    /\ Len(peer.tasks) = 2
    /\ Persisted = Some(peer.tasks)
    /\ ~DoneTodayIn(Persisted[1], 0)

(***************************************************************************)
(* Termination of the history view                                         *)
(***************************************************************************)
\* the number of days of the window start..end
DaysOfRange(start, end) == IF start <= end THEN end - start + 1 ELSE 0

\* C39: history_for_range comes to its end for every start and end, also
\* for a start after the end: the loop over the dates takes at most one
\* turn per day of the window and the call does not abort.
C39_DatesLoopBounded ==
    locals # None =>
        /\ Len(locals[1].dates) <= DaysOfRange(locals[1].start, locals[1].end)
        /\ pc # "Aborted"

====
